---- MODULE Spec2Model ----
(***************************************************************************)
(* StreamrDrive: the control protocol engine of streamr-drive.js and the   *)
(* message controller of message-controller.js.                            *)
(*                                                                         *)
(* Representation.                                                         *)
(*  - A path string is the sequence of its "/"-separated segments:         *)
(*    "a/b" is <<"a","b">>, "" is <<>>, "../x" is <<"..","x">>.            *)
(*  - A base64 string is the sequence of its characters, each character    *)
(*    the index 0..63 of the base64 alphabet, Pad for "=".                 *)
(*  - A Buffer is the sequence of its bytes (0..255).                      *)
(*  - A JS object is a function from its own field names to their values;  *)
(*    a field holding undefined holds Undefined.                           *)
(*  - The filesystem is a function from the normalized paths that exist    *)
(*    (relative to the working directory, <<>>) to their nodes.            *)
(*  - A command in flight is a task; a task is suspended at the filesystem *)
(*    call named by its "at" field.  One Step performs that call and runs  *)
(*    the handler up to its next filesystem call or to its end.            *)
(***************************************************************************)
EXTENDS Integers, Sequences, FiniteSets, TLC

VARIABLES
  receivedMessages,  \* StreamrMessageController.receivedMessages
  sentMessages,      \* StreamrMessageController.sentMessages (most recent first)
  listening,         \* the controller's listeners are attached
  chunkerQueue,      \* messages handed to streamrChunker.publish, in order
  fs,                \* the filesystem
  tasks,             \* one processCommand invocation per received message
  ticks,             \* number of chunk-update ticks handled
  emitted,           \* history: per received message, the events receiveHandler emitted
  published,         \* history: "publish" events emitted by the controller
  handed,            \* history: per task, the messages it passed to upload()
  fsops,             \* history: per task, the filesystem calls it made
  snap,              \* history: per task, the filesystem at receipt and at return
  lastTick,          \* history: the last tick and what it passed to upload()
  lastUpload,        \* history: the last upload() of a caller other than the engine
  faulty,            \* the collaborator whose publish fails now, and the changes so far
  attempts,          \* history: the calls of streamrChunker.publish and streamrClient.publish
  lastLookup         \* history: the last getLatest / getLatestMessage and its result

vars == <<receivedMessages, sentMessages, listening, chunkerQueue, fs, tasks,
          ticks, emitted, published, handed, fsops, snap, lastTick,
          lastUpload, faulty, attempts, lastLookup>>

(***************************************************************************)
(* Bounds of the model.                                                    *)
(***************************************************************************)
MaxEvents == 2          \* inbound messages, chunk-update ticks and shutdowns
MaxProgressTicks == 1   \* chunk-update ticks of the aggregator taken alone
MaxFaults == 2          \* times a collaborator's publish starts or stops failing
MaxLookups == 1         \* lookups of the received history by a client

(***************************************************************************)
(* Constants of the program and of its platform.                           *)
(***************************************************************************)
SUPPORTED_MESSAGE_TYPES == {"image", "text", "file"}

Undefined == "<undefined>"

DeviceId == "streamr-drive-0a1b2c3d"

storageDir == <<"storage">>

Pad == 64           \* the "=" of a base64 string

DirSize == 4096     \* stats.size of a directory

(***************************************************************************)
(* JS helpers.                                                             *)
(***************************************************************************)
Has(obj, f) == f \in DOMAIN obj

\* obj.f
Get(obj, f) == IF f \in DOMAIN obj THEN obj[f] ELSE Undefined

\* !obj.f for a string-valued field: undefined and "" are falsy
Falsy(obj, f) == ~Has(obj, f) \/ obj[f] = <<>>

\* obj.f || ''
OrEmpty(obj, f) == IF Falsy(obj, f) THEN <<>> ELSE obj[f]

\* the fields of a Response that the code fills with a string of its input
StringFields == {"action", "messageId"}

\* JSON.stringify(obj): the text of an object, its fields holding undefined
\* left out
JSONstringify(obj) ==
  [syntax |-> "object",
   obj |-> [f \in {g \in DOMAIN obj :
                     ~(g \in StringFields /\ obj[g] = Undefined)} |-> obj[f]]]

\* JSON.parse(text): [threw, value]; the value of a text that is no object
\* is kept by its kind only
JSONparse(text) ==
  IF text.syntax = "invalid" THEN [threw |-> TRUE, kind |-> "none", obj |-> <<>>]
  ELSE IF text.syntax = "object" THEN
    [threw |-> FALSE, kind |-> "object", obj |-> text.obj]
  ELSE [threw |-> FALSE, kind |-> text.syntax, obj |-> <<>>]

(***************************************************************************)
(* Buffer.from(s, 'base64') and buf.toString('base64').                    *)
(***************************************************************************)
RECURSIVE Base64Encode(_)
Base64Encode(buf) ==
  IF Len(buf) = 0 THEN <<>>
  ELSE IF Len(buf) = 1 THEN
    << buf[1] \div 4, (buf[1] % 4) * 16, Pad, Pad >>
  ELSE IF Len(buf) = 2 THEN
    << buf[1] \div 4, (buf[1] % 4) * 16 + (buf[2] \div 16),
       (buf[2] % 16) * 4, Pad >>
  ELSE
    << buf[1] \div 4, (buf[1] % 4) * 16 + (buf[2] \div 16),
       (buf[2] % 16) * 4 + (buf[3] \div 64), buf[3] % 64 >>
    \o Base64Encode(SubSeq(buf, 4, Len(buf)))

\* the characters before the first "="
RECURSIVE BeforePad(_)
BeforePad(s) ==
  IF Len(s) = 0 \/ s[1] = Pad THEN <<>>
  ELSE <<s[1]>> \o BeforePad(Tail(s))

RECURSIVE DecodeGroups(_)
DecodeGroups(s) ==
  IF Len(s) <= 1 THEN <<>>
  ELSE IF Len(s) = 2 THEN
    << s[1] * 4 + (s[2] \div 16) >>
  ELSE IF Len(s) = 3 THEN
    << s[1] * 4 + (s[2] \div 16), (s[2] % 16) * 16 + (s[3] \div 4) >>
  ELSE
    << s[1] * 4 + (s[2] \div 16), (s[2] % 16) * 16 + (s[3] \div 4),
       (s[3] % 4) * 64 + s[4] >>
    \o DecodeGroups(SubSeq(s, 5, Len(s)))

Base64Decode(s) == DecodeGroups(BeforePad(s))

(***************************************************************************)
(* path.join: concatenate, then normalize ("a/.." cancels, a leading ".."  *)
(* stays).                                                                 *)
(***************************************************************************)
RECURSIVE Normalize(_, _)
Normalize(done, rest) ==
  IF Len(rest) = 0 THEN done
  ELSE IF rest[1] = ".." /\ Len(done) > 0 /\ done[Len(done)] # ".." THEN
    Normalize(SubSeq(done, 1, Len(done) - 1), Tail(rest))
  ELSE Normalize(Append(done, rest[1]), Tail(rest))

PathJoin2(a, b) == Normalize(<<>>, a \o b)

PathJoin3(a, b, c) == Normalize(<<>>, a \o b \o c)

(***************************************************************************)
(* The filesystem primitives of fs/promises.  Each returns                 *)
(* [err, fs, val]: err = "" when the call resolves, the error code when it *)
(* rejects; fs the filesystem after the call; val the resolved value.      *)
(***************************************************************************)
NoVal == <<>>

Ok(f, v) == [err |-> "", fs |-> f, val |-> v]

Fail(f, code) == [err |-> code, fs |-> f, val |-> NoVal]

DirNode == [dir |-> TRUE, data |-> <<>>]

FileNode(buf) == [dir |-> FALSE, data |-> buf]

IsPrefix(p, q) == Len(p) <= Len(q) /\ SubSeq(q, 1, Len(p)) = p

Parent(p) == SubSeq(p, 1, Len(p) - 1)

Prefixes(p) == {SubSeq(p, 1, n) : n \in 0..Len(p)}

\* fs.access(p)
fsAccess(f, p) ==
  IF p \in DOMAIN f THEN Ok(f, NoVal) ELSE Fail(f, "ENOENT")

\* fs.mkdir(p, { recursive: true })
fsMkdir(f, p) ==
  IF p \in DOMAIN f THEN
    IF f[p].dir THEN Ok(f, NoVal) ELSE Fail(f, "EEXIST")
  ELSE IF \E q \in Prefixes(p) : q \in DOMAIN f /\ ~f[q].dir THEN
    Fail(f, "ENOTDIR")
  ELSE
    Ok([q \in DOMAIN f \cup Prefixes(p) |->
          IF q \in DOMAIN f THEN f[q] ELSE DirNode], NoVal)

\* fs.writeFile(p, buf)
fsWriteFile(f, p, buf) ==
  IF p \in DOMAIN f /\ f[p].dir THEN Fail(f, "EISDIR")
  ELSE IF Len(p) = 0 \/ Parent(p) \notin DOMAIN f THEN Fail(f, "ENOENT")
  ELSE IF ~f[Parent(p)].dir THEN Fail(f, "ENOTDIR")
  ELSE Ok([q \in DOMAIN f \cup {p} |->
             IF q = p THEN FileNode(buf) ELSE f[q]], NoVal)

\* fs.readFile(p)
fsReadFile(f, p) ==
  IF p \notin DOMAIN f THEN Fail(f, "ENOENT")
  ELSE IF f[p].dir THEN Fail(f, "EISDIR")
  ELSE Ok(f, f[p].data)

\* the Stats of an existing node
StatsOf(node) ==
  [size |-> IF node.dir THEN DirSize ELSE Len(node.data),
   isDirectory |-> node.dir]

\* fs.stat(p)
fsStat(f, p) ==
  IF p \notin DOMAIN f THEN Fail(f, "ENOENT")
  ELSE Ok(f, StatsOf(f[p]))

Children(f, p) == {q \in DOMAIN f : Len(q) = Len(p) + 1 /\ IsPrefix(p, q)}

\* fs.readdir(p, { withFileTypes: true }): the entries, in no order
fsReaddir(f, p) ==
  IF p \notin DOMAIN f THEN Fail(f, "ENOENT")
  ELSE IF ~f[p].dir THEN Fail(f, "ENOTDIR")
  ELSE Ok(f, {[name |-> q[Len(q)], isDirectory |-> f[q].dir] :
                q \in Children(f, p)})

\* fs.rm(p, { recursive: true })
fsRm(f, p) ==
  IF p \notin DOMAIN f THEN Fail(f, "ENOENT")
  ELSE Ok([q \in {r \in DOMAIN f : ~IsPrefix(p, r)} |-> f[q]], NoVal)

\* fs.unlink(p)
fsUnlink(f, p) ==
  IF p \notin DOMAIN f THEN Fail(f, "ENOENT")
  ELSE IF f[p].dir THEN Fail(f, "EISDIR")
  ELSE Ok([q \in DOMAIN f \ {p} |-> f[q]], NoVal)

\* the tree at old, moved to new
Moved(f, old, new) ==
  LET kept == {q \in DOMAIN f : ~IsPrefix(old, q) /\ ~IsPrefix(new, q)}
      sub  == {q \in DOMAIN f : IsPrefix(old, q)}
      to(q) == new \o SubSeq(q, Len(old) + 1, Len(q))
  IN [r \in kept \cup {to(q) : q \in sub} |->
        IF r \in kept THEN f[r]
        ELSE f[old \o SubSeq(r, Len(new) + 1, Len(r))]]

\* fs.rename(old, new): rename(2), which replaces an existing destination
fsRename(f, old, new) ==
  IF old \notin DOMAIN f THEN Fail(f, "ENOENT")
  ELSE IF old = new THEN Ok(f, NoVal)
  ELSE IF Len(new) = 0 \/ Parent(new) \notin DOMAIN f THEN Fail(f, "ENOENT")
  ELSE IF ~f[Parent(new)].dir THEN Fail(f, "ENOTDIR")
  ELSE IF IsPrefix(old, new) THEN Fail(f, "EINVAL")
  ELSE IF new \in DOMAIN f /\ f[new].dir /\ ~f[old].dir THEN Fail(f, "EISDIR")
  ELSE IF new \in DOMAIN f /\ ~f[new].dir /\ f[old].dir THEN Fail(f, "ENOTDIR")
  ELSE IF new \in DOMAIN f /\ f[new].dir /\ Children(f, new) # {} THEN
    Fail(f, "ENOTEMPTY")
  ELSE Ok(Moved(f, old, new), NoVal)

(***************************************************************************)
(* StreamrMessageController (message-controller.js).                       *)
(* A controller state is [sent, published, queue, threw].                  *)
(***************************************************************************)
\* the object emitted with "publish", its deviceId the caller's when given
PublishObj_CallerDeviceId(msg) ==
  [type |-> msg.type, body |-> msg.body,
   deviceId |-> IF Has(msg, "deviceId") THEN msg.deviceId ELSE DeviceId]

\* the object uploadImage / uploadText / uploadFile emit with "publish"
PublishObj(msg) ==
  IF msg.type = "file" THEN
    [type |-> "file", fileName |-> msg.fileName, fileSize |-> msg.fileSize,
     body |-> msg.body, deviceId |-> DeviceId]
  ELSE [type |-> msg.type, body |-> msg.body, deviceId |-> DeviceId]

Attempt(who, message, ok) == [to |-> who, message |-> message, ok |-> ok]

\* publishToStreamr, the listener of the chunker's "publish": one call of
\* streamrClient.publish, whose failure is caught and logged
publishToStreamr(c, message) ==
  [c EXCEPT !.attempts =
     Append(@, Attempt("streamrClient", message, faulty.who # "streamrClient"))]

\* handleMessagePublish that calls streamrChunker.publish again when it failed
handleMessagePublish_Retries(c, message) ==
  IF faulty.who = "streamrChunker" THEN
    [c EXCEPT !.attempts = @ \o <<Attempt("streamrChunker", message, FALSE),
                                  Attempt("streamrChunker", message, FALSE)>>]
  ELSE
    publishToStreamr(
      [c EXCEPT !.queue = Append(@, message),
                !.attempts = Append(@, Attempt("streamrChunker", message, TRUE))],
      message)

\* handleMessagePublish, the listener of "publish": one call of
\* streamrChunker.publish, whose failure is caught and logged; the chunker
\* emits a message of the sizes modelled as one chunk
handleMessagePublish(c, message) ==
  IF faulty.who = "streamrChunker" THEN
    [c EXCEPT !.attempts = Append(@, Attempt("streamrChunker", message, FALSE))]
  ELSE
    publishToStreamr(
      [c EXCEPT !.queue = Append(@, message),
                !.attempts = Append(@, Attempt("streamrChunker", message, TRUE))],
      message)

\* emit("publish", msgObj)
emitPublish(c, msgObj, attached) ==
  LET e == [c EXCEPT !.published = Append(@, msgObj)]
  IN IF attached THEN handleMessagePublish(e, msgObj) ELSE e

\* upload(msg) that records the message before it validates the kind
upload_RecordsFirst(c, msg, attached) ==
  IF Get(msg, "type") \notin SUPPORTED_MESSAGE_TYPES THEN
    [c EXCEPT !.threw = TRUE, !.sent = <<msg>> \o c.sent]
  ELSE emitPublish([c EXCEPT !.sent = <<msg>> \o @], PublishObj(msg), attached)

\* upload(msg)
upload(c, msg, attached) ==
  IF Get(msg, "type") \notin SUPPORTED_MESSAGE_TYPES THEN
    \* throw new Error("unknown content type")
    [c EXCEPT !.threw = TRUE]
  ELSE emitPublish([c EXCEPT !.sent = <<msg>> \o @], PublishObj(msg), attached)

RECURSIVE uploadAll(_, _, _)
uploadAll(c, msgs, attached) ==
  IF Len(msgs) = 0 THEN c
  ELSE uploadAll(upload(c, Head(msgs), attached), Tail(msgs), attached)

Controller ==
  [sent |-> sentMessages, published |-> published, queue |-> chunkerQueue,
   attempts |-> attempts, threw |-> FALSE]

\* the controller after the engine passed msgs to upload(), in order
Outbound(msgs) ==
  LET c == uploadAll(Controller, msgs, listening)
  IN /\ sentMessages' = c.sent
     /\ published' = c.published
     /\ chunkerQueue' = c.queue
     /\ attempts' = c.attempts

\* receiveHandler(msg) that emits "message" for a supported type only
receiveHandlerEmits_SupportedOnly(msg) ==
  IF msg.type \in SUPPORTED_MESSAGE_TYPES
  THEN <<[name |-> "message", msg |-> msg], [name |-> msg.type, msg |-> msg]>>
  ELSE <<>>

\* receiveHandler(msg): the events it emits, in order
receiveHandlerEmits(msg) ==
  <<[name |-> "message", msg |-> msg]>>
  \o (IF msg.type = "image" THEN <<[name |-> "image", msg |-> msg]>> ELSE <<>>)
  \o (IF msg.type = "text" THEN <<[name |-> "text", msg |-> msg]>> ELSE <<>>)
  \o (IF msg.type = "file" THEN <<[name |-> "file", msg |-> msg]>> ELSE <<>>)

\* the undefined that a lookup returns
NoMessage == [undefined |-> TRUE]

\* getLatest(type) that returns the first message of the type
getLatest_First(received, type) ==
  LET OfType(m) == m.type = type
      filtered == SelectSeq(received, OfType)
  IN IF Len(filtered) > 0 THEN filtered[1] ELSE NoMessage

\* getLatest(type)
getLatest(received, type) ==
  LET OfType(m) == m.type = type
      filtered == SelectSeq(received, OfType)
  IN IF Len(filtered) > 0 THEN filtered[Len(filtered)] ELSE NoMessage

\* getLatestMessage()
getLatestMessage(received) ==
  IF Len(received) > 0 THEN received[Len(received)] ELSE NoMessage

\* sendResponse(response): the message it passes to upload()
sendResponse(response) == [type |-> "text", body |-> JSONstringify(response)]

(***************************************************************************)
(* The handlers of StreamrDrive.  A handler's start is its code up to its  *)
(* first filesystem call: [at, out], the call it is suspended at ("done"   *)
(* when it returned) and the messages it passed to upload().  A handler's  *)
(* continuation takes the task and the filesystem, performs the call the   *)
(* task is suspended at and runs the code up to the next call:             *)
(* [fs, at, loc, out, op].  The message of a Response built by a template  *)
(* is the sequence of the template's pieces.                               *)
(***************************************************************************)
Suspend(label) == [at |-> label, out |-> <<>>]

Return(responses) == [at |-> "done", out |-> responses]

Call(name, p) == [op |-> name, path |-> p, to |-> p]

Goto(r, label, l, o) ==
  [fs |-> r.fs, at |-> label, loc |-> l, out |-> <<>>,
   op |-> [op |-> o.op, path |-> o.path, to |-> o.to, err |-> r.err]]

End(r, msgs, o) ==
  [fs |-> r.fs, at |-> "done", loc |-> NoVal, out |-> msgs,
   op |-> [op |-> o.op, path |-> o.path, to |-> o.to, err |-> r.err]]

ErrorResponse(action, text) ==
  sendResponse([action |-> action, status |-> "error", message |-> <<text>>])

\* the Response of a catch block that leaves the cause out
CaughtResponse_NoCause(action, text, r) ==
  sendResponse([action |-> action, status |-> "error", message |-> <<text>>])

\* the Response of a handler's catch block: `<text>${error.message}`
CaughtResponse(action, text, r) ==
  sendResponse([action |-> action, status |-> "error",
                message |-> <<text, r.err>>])

\* path.join(storageDir, command.path || '')
DirPath(command) == PathJoin2(storageDir, OrEmpty(command, "path"))

\* path.join(storageDir, command.path || '', command[field])
EntryPath(command, field) ==
  PathJoin3(storageDir, OrEmpty(command, "path"), command[field])

\* handlePing without its sendResponse
handlePing_Silent(command) == Return(<<>>)

\* handlePing
handlePing(command) ==
  Return(<<sendResponse([action |-> "pong", status |-> "success",
                         timestamp |-> "Date.now()"])>>)

\* listFiles
listFilesStart(command) == Suspend("list.access")

listFilesCont(t, f) ==
  LET command == t.cmd
      dirPath == DirPath(command)
  IN
  IF t.at = "list.access" THEN
    LET r == fsAccess(f, dirPath) o == Call("access", dirPath) IN
    IF r.err # "" THEN End(r, <<ErrorResponse("list", "Directory not found")>>, o)
    ELSE Goto(r, "list.readdir", NoVal, o)
  ELSE IF t.at = "list.readdir" THEN
    LET r == fsReaddir(f, dirPath) o == Call("readdir", dirPath) IN
    IF r.err # "" THEN
      End(r, <<CaughtResponse("list", "Error listing files: ", r)>>, o)
    ELSE IF r.val = {} THEN
      End(r, <<sendResponse([action |-> "list", status |-> "success",
                             path |-> OrEmpty(command, "path"),
                             files |-> {}])>>, o)
    ELSE Goto(r, "list.stat", r.val, o)
  ELSE
    \* Promise.all of fs.stat over the entries, taken as one call
    LET o == Call("stat", dirPath)
        full(e) == PathJoin2(dirPath, <<e.name>>)
        gone == {e \in t.loc : fsStat(f, full(e)).err # ""}
    IN
    IF gone # {} THEN
      End(Fail(f, "ENOENT"),
          <<CaughtResponse("list", "Error listing files: ", Fail(f, "ENOENT"))>>, o)
    ELSE
      End(Ok(f, NoVal),
          <<sendResponse([action |-> "list", status |-> "success",
              path |-> OrEmpty(command, "path"),
              files |-> {[name |-> e.name, isDirectory |-> e.isDirectory,
                          size |-> fsStat(f, full(e)).val.size] : e \in t.loc}])>>,
          o)

\* saveFile
saveFileStart(command) ==
  IF Falsy(command, "fileName") \/ Falsy(command, "data") THEN
    Return(<<ErrorResponse("upload", "Missing fileName or data")>>)
  ELSE Suspend("upload.mkdir")

saveFileCont(t, f) ==
  LET command == t.cmd
      dirPath == DirPath(command)
      filePath == PathJoin2(dirPath, command.fileName)
      buffer == Base64Decode(command.data)
  IN
  IF t.at = "upload.mkdir" THEN
    LET r == fsMkdir(f, dirPath) o == Call("mkdir", dirPath) IN
    IF r.err # "" THEN
      End(r, <<CaughtResponse("upload", "Error saving file: ", r)>>, o)
    ELSE Goto(r, "upload.writeFile", NoVal, o)
  ELSE
    LET r == fsWriteFile(f, filePath, buffer) o == Call("writeFile", filePath) IN
    IF r.err # "" THEN
      End(r, <<CaughtResponse("upload", "Error saving file: ", r)>>, o)
    ELSE
      End(r, <<sendResponse([action |-> "upload", status |-> "success",
                             fileName |-> command.fileName,
                             path |-> OrEmpty(command, "path"),
                             size |-> Len(buffer)])>>, o)

\* downloadFile that answers before it sends the file
downloadSuccess_ResponseFirst(command, data, stats) ==
  << sendResponse([action |-> "download", status |-> "success",
                   fileName |-> command.fileName,
                   path |-> OrEmpty(command, "path"),
                   size |-> stats.size]),
     [type |-> "file", fileName |-> command.fileName,
      fileSize |-> stats.size, body |-> Base64Encode(data)] >>

\* downloadFile, once the file is read and its stats are known: the file
\* message, then the Response
downloadSuccess(command, data, stats) ==
  << [type |-> "file", fileName |-> command.fileName,
      fileSize |-> stats.size, body |-> Base64Encode(data)],
     sendResponse([action |-> "download", status |-> "success",
                   fileName |-> command.fileName,
                   path |-> OrEmpty(command, "path"),
                   size |-> stats.size]) >>

\* downloadFile
downloadFileStart(command) ==
  IF Falsy(command, "fileName") THEN
    Return(<<ErrorResponse("download", "Missing fileName")>>)
  ELSE Suspend("download.access")

downloadFileCont(t, f) ==
  LET command == t.cmd
      filePath == EntryPath(command, "fileName")
  IN
  IF t.at = "download.access" THEN
    LET r == fsAccess(f, filePath) o == Call("access", filePath) IN
    IF r.err # "" THEN End(r, <<ErrorResponse("download", "File not found")>>, o)
    ELSE Goto(r, "download.readFile", NoVal, o)
  ELSE IF t.at = "download.readFile" THEN
    LET r == fsReadFile(f, filePath) o == Call("readFile", filePath) IN
    IF r.err # "" THEN
      End(r, <<CaughtResponse("download", "Error downloading file: ", r)>>, o)
    ELSE Goto(r, "download.stat", r.val, o)
  ELSE
    LET r == fsStat(f, filePath) o == Call("stat", filePath) IN
    IF r.err # "" THEN
      End(r, <<CaughtResponse("download", "Error downloading file: ", r)>>, o)
    ELSE
      End(r, downloadSuccess(command, t.loc, r.val), o)

\* deleteFile with fs.rmdir(filePath), not recursive
deleteDirectoryCall_NotRecursive(f, filePath) ==
  IF filePath \in DOMAIN f /\ Children(f, filePath) # {} THEN Fail(f, "ENOTEMPTY")
  ELSE fsRm(f, filePath)

\* deleteFile, its call for a directory
deleteDirectoryCall(f, filePath) == fsRm(f, filePath)

\* deleteFile
deleteFileStart(command) ==
  IF Falsy(command, "fileName") THEN
    Return(<<ErrorResponse("delete", "Missing fileName")>>)
  ELSE Suspend("delete.access")

deleteFileCont(t, f) ==
  LET command == t.cmd
      filePath == EntryPath(command, "fileName")
      success == sendResponse([action |-> "delete", status |-> "success",
                               fileName |-> command.fileName,
                               path |-> OrEmpty(command, "path")])
  IN
  IF t.at = "delete.access" THEN
    LET r == fsAccess(f, filePath) o == Call("access", filePath) IN
    IF r.err # "" THEN End(r, <<ErrorResponse("delete", "File not found")>>, o)
    ELSE Goto(r, "delete.stat", NoVal, o)
  ELSE IF t.at = "delete.stat" THEN
    LET r == fsStat(f, filePath) o == Call("stat", filePath) IN
    IF r.err # "" THEN
      End(r, <<CaughtResponse("delete", "Error deleting file: ", r)>>, o)
    ELSE IF r.val.isDirectory THEN Goto(r, "delete.rm", NoVal, o)
    ELSE Goto(r, "delete.unlink", NoVal, o)
  ELSE
    LET r == IF t.at = "delete.rm" THEN deleteDirectoryCall(f, filePath)
             ELSE fsUnlink(f, filePath)
        o == IF t.at = "delete.rm" THEN Call("rm", filePath)
             ELSE Call("unlink", filePath)
    IN
    IF r.err # "" THEN
      End(r, <<CaughtResponse("delete", "Error deleting file: ", r)>>, o)
    ELSE End(r, <<success>>, o)

\* createDirectory with fs.mkdir(dirPath), not recursive
createDirectoryCall_NotRecursive(f, dirPath) ==
  IF dirPath \in DOMAIN f THEN Fail(f, "EEXIST") ELSE fsMkdir(f, dirPath)

\* createDirectory, its filesystem call
createDirectoryCall(f, dirPath) == fsMkdir(f, dirPath)

\* createDirectory
createDirectoryStart(command) ==
  IF Falsy(command, "dirName") THEN
    Return(<<ErrorResponse("mkdir", "Missing dirName")>>)
  ELSE Suspend("mkdir.mkdir")

createDirectoryCont(t, f) ==
  LET command == t.cmd
      dirPath == EntryPath(command, "dirName")
      r == createDirectoryCall(f, dirPath)
      o == Call("mkdir", dirPath)
  IN
  IF r.err # "" THEN
    End(r, <<CaughtResponse("mkdir", "Error creating directory: ", r)>>, o)
  ELSE
    End(r, <<sendResponse([action |-> "mkdir", status |-> "success",
                           dirName |-> command.dirName,
                           path |-> OrEmpty(command, "path")])>>, o)

\* getFileInfo
getFileInfoStart(command) ==
  IF Falsy(command, "fileName") THEN
    Return(<<ErrorResponse("info", "Missing fileName")>>)
  ELSE Suspend("info.access")

getFileInfoCont(t, f) ==
  LET command == t.cmd
      filePath == EntryPath(command, "fileName")
  IN
  IF t.at = "info.access" THEN
    LET r == fsAccess(f, filePath) o == Call("access", filePath) IN
    IF r.err # "" THEN End(r, <<ErrorResponse("info", "File not found")>>, o)
    ELSE Goto(r, "info.stat", NoVal, o)
  ELSE
    LET r == fsStat(f, filePath) o == Call("stat", filePath) IN
    IF r.err # "" THEN
      End(r, <<CaughtResponse("info", "Error getting file info: ", r)>>, o)
    ELSE
      End(r, <<sendResponse([action |-> "info", status |-> "success",
                             fileName |-> command.fileName,
                             path |-> OrEmpty(command, "path"),
                             size |-> r.val.size,
                             isDirectory |-> r.val.isDirectory])>>, o)

\* renameFile without the check of the destination
destinationExists_Unchecked(f, newPath) == FALSE

\* renameFile, the check that the destination does not exist yet
destinationExists(f, newPath) == fsAccess(f, newPath).err = ""

\* renameFile that validates oldName alone
renameFileStart_OldNameOnly(command) ==
  IF Falsy(command, "oldName") THEN
    Return(<<ErrorResponse("rename", "Missing oldName or newName")>>)
  ELSE Suspend("rename.accessOld")

\* renameFile
renameFileStart(command) ==
  IF Falsy(command, "oldName") \/ Falsy(command, "newName") THEN
    Return(<<ErrorResponse("rename", "Missing oldName or newName")>>)
  ELSE Suspend("rename.accessOld")

renameFileCont(t, f) ==
  LET command == t.cmd
      oldPath == EntryPath(command, "oldName")
      newPath == EntryPath(command, "newName")
  IN
  IF t.at = "rename.accessOld" THEN
    LET r == fsAccess(f, oldPath) o == Call("access", oldPath) IN
    IF r.err # "" THEN
      End(r, <<ErrorResponse("rename", "Source file/folder not found")>>, o)
    ELSE Goto(r, "rename.accessNew", NoVal, o)
  ELSE IF t.at = "rename.accessNew" THEN
    LET r == fsAccess(f, newPath) o == Call("access", newPath) IN
    IF destinationExists(f, newPath) THEN
      End(r, <<ErrorResponse("rename", "Destination already exists")>>, o)
    ELSE Goto(r, "rename.rename", NoVal, o)
  ELSE IF t.at = "rename.rename" THEN
    LET r == fsRename(f, oldPath, newPath)
        o == [op |-> "rename", path |-> oldPath, to |-> newPath]
    IN
    IF r.err # "" THEN
      End(r, <<CaughtResponse("rename", "Error renaming file/folder: ", r)>>, o)
    ELSE Goto(r, "rename.stat", NoVal, o)
  ELSE
    LET r == fsStat(f, newPath) o == Call("stat", newPath) IN
    IF r.err # "" THEN
      End(r, <<CaughtResponse("rename", "Error renaming file/folder: ", r)>>, o)
    ELSE
      End(r, <<sendResponse([action |-> "rename", status |-> "success",
                             oldName |-> command.oldName,
                             newName |-> command.newName,
                             path |-> OrEmpty(command, "path"),
                             isDirectory |-> r.val.isDirectory,
                             size |-> r.val.size])>>, o)

\* processCommand with no default case
unknownCommand_Dropped(command) == Return(<<>>)

\* processCommand whose default case awaits before it answers
unknownCommand_Awaited(command) == Suspend("unknown.sendResponse")

\* processCommand, the default case of the switch
unknownCommand(command) ==
  Return(<<sendResponse([action |-> Get(command, "action"),
                         status |-> "error",
                         message |-> <<"Unknown command">>])>>)

\* processCommand that takes a message of any type for a command
isCommand_AnyType(message) == TRUE

\* processCommand, its first line: a message that is no text is ignored
isCommand(message) == message.type = "text"

\* processCommand, from JSON.parse to the handler's first filesystem call
processCommandStart(message) ==
  LET parsed == JSONparse(message.body)
      command == parsed.obj
  IN
  IF parsed.threw THEN
    Return(<<sendResponse([status |-> "error",
               message |-> <<"Error processing command: ", "SyntaxError">>])>>)
  ELSE IF parsed.kind = "null" THEN
    \* command.action of null throws a TypeError
    Return(<<sendResponse([status |-> "error",
               message |-> <<"Error processing command: ", "TypeError">>])>>)
  ELSE IF Get(command, "action") = "ping" THEN handlePing(command)
  ELSE IF Get(command, "action") = "list" THEN listFilesStart(command)
  ELSE IF Get(command, "action") = "upload" THEN saveFileStart(command)
  ELSE IF Get(command, "action") = "download" THEN downloadFileStart(command)
  ELSE IF Get(command, "action") = "delete" THEN deleteFileStart(command)
  ELSE IF Get(command, "action") = "mkdir" THEN createDirectoryStart(command)
  ELSE IF Get(command, "action") = "info" THEN getFileInfoStart(command)
  ELSE IF Get(command, "action") = "rename" THEN renameFileStart(command)
  ELSE unknownCommand(command)

\* handleChunkUpdate that samples on parity alone
ProgressResponse_ParityOnly(update) ==
  LET total == update.lastChunkId + 1
      progressPercent == update.progress
      received == (progressPercent * total + 50) \div 100
  IN
  IF received % 2 = 0 THEN
    <<sendResponse([action |-> "upload-progress", status |-> "info",
                    messageId |-> Get(update, "messageId"),
                    received |-> received, total |-> total,
                    progress |-> progressPercent,
                    complete |-> (progressPercent = 100)])>>
  ELSE <<>>

\* handleChunkUpdate: the messages one update passes to upload().
\* progress is a whole percentage; Math.round rounds halves up.
ProgressResponse(update) ==
  LET total == update.lastChunkId + 1
      progressPercent == update.progress
      received == (progressPercent * total + 50) \div 100
  IN
  IF received % 2 = 0 \/ received = total THEN
    <<sendResponse([action |-> "upload-progress", status |-> "info",
                    messageId |-> Get(update, "messageId"),
                    received |-> received, total |-> total,
                    progress |-> progressPercent,
                    complete |-> (progressPercent = 100)])>>
  ELSE <<>>

RECURSIVE ProgressResponses(_)
ProgressResponses(updateData) ==
  IF Len(updateData) = 0 THEN <<>>
  ELSE ProgressResponse(Head(updateData)) \o ProgressResponses(Tail(updateData))

(***************************************************************************)
(* Inputs: file contents, filesystems at start, commands, messages, ticks. *)
(***************************************************************************)
F1 == <<77>>

F2 == <<77, 97, 110>>

F3 == <<255, 254>>

Contents == {<<>>, F1, F2, F3}

EmptyStorage == [p \in {<<>>, storageDir} |-> DirNode]

\* two files in the storage directory, one file beside it
FilesStorage ==
  [p \in {<<>>, storageDir, <<"storage", "a">>, <<"storage", "b">>, <<"x">>} |->
     IF p = <<"storage", "a">> THEN FileNode(F1)
     ELSE IF p = <<"storage", "b">> THEN FileNode(F2)
     ELSE IF p = <<"x">> THEN FileNode(F3)
     ELSE DirNode]

\* a directory holding a file
DirStorage ==
  [p \in {<<>>, storageDir, <<"storage", "a">>, <<"storage", "a", "b">>} |->
     IF p = <<"storage", "a", "b">> THEN FileNode(F2) ELSE DirNode]

InitialFS == {EmptyStorage, FilesStorage, DirStorage}

Commands ==
  { [action |-> "bogus"],
    [action |-> "ping"],
    [action |-> "list"],
    [action |-> "list", path |-> <<"a">>],
    [action |-> "upload", fileName |-> <<"a">>],
    [action |-> "upload", data |-> Base64Encode(F1)],
    [action |-> "upload", fileName |-> <<"a">>, data |-> Base64Encode(<<>>)],
    [action |-> "upload", fileName |-> <<"a">>, data |-> Base64Encode(F3)],
    [action |-> "upload", fileName |-> <<"b">>, path |-> <<"a">>,
     data |-> Base64Encode(F1)],
    [action |-> "upload", fileName |-> <<"..", "x">>, data |-> Base64Encode(F1)],
    [action |-> "download"],
    [action |-> "download", fileName |-> <<"a">>],
    [action |-> "download", fileName |-> <<"b">>, path |-> <<"a">>],
    [action |-> "download", fileName |-> <<"..", "x">>],
    [action |-> "delete"],
    [action |-> "delete", fileName |-> <<"a">>],
    [action |-> "delete", fileName |-> <<"ghost.txt">>],
    [action |-> "mkdir"],
    [action |-> "mkdir", dirName |-> <<"a">>],
    [action |-> "info"],
    [action |-> "info", fileName |-> <<"a">>],
    [action |-> "rename", oldName |-> <<"a">>],
    [action |-> "rename", oldName |-> <<"a">>, newName |-> <<"b">>],
    [action |-> "rename", oldName |-> <<"a">>, newName |-> <<"a", "b">>] }

Text(value) == [syntax |-> "object", obj |-> value]

\* bodies of text messages: commands, and texts that are no object
Bodies ==
  {Text(c) : c \in Commands}
  \cup {[syntax |-> "invalid"], [syntax |-> "null"], [syntax |-> "number"],
        Text(<<>>)}

InboundMessages ==
  {[type |-> "text", body |-> b] : b \in Bodies}
  \cup {[type |-> "image", body |-> Text([action |-> "mkdir", dirName |-> <<"a">>])],
        [type |-> "video", body |-> Text([action |-> "delete", fileName |-> <<"a">>])]}

\* a tick of one update that is answered; a tick of an update that is
\* answered and one, with no messageId, that is not
Ticks ==
  { <<[messageId |-> "m1", lastChunkId |-> 9, progress |-> 50]>>,
    <<[messageId |-> "m2", lastChunkId |-> 2, progress |-> 100],
      [lastChunkId |-> 2, progress |-> 34]>> }

(***************************************************************************)
(* The state machine.                                                      *)
(***************************************************************************)
Init ==
  /\ receivedMessages = <<>>
  /\ sentMessages = <<>>
  /\ listening = TRUE
  /\ chunkerQueue = <<>>
  /\ fs \in InitialFS
  /\ tasks = <<>>
  /\ ticks = 0
  /\ emitted = <<>>
  /\ published = <<>>
  /\ handed = <<>>
  /\ fsops = <<>>
  /\ snap = <<>>
  /\ lastTick = [updates |-> <<>>, out |-> <<>>]
  /\ lastUpload = [called |-> FALSE]
  /\ faulty = [who |-> "none", changes |-> 0]
  /\ attempts = <<>>
  /\ lastLookup = [called |-> FALSE, n |-> 0]

Active(t) == t.at \notin {"done", "none"}

\* the events delivered so far
Events == Len(receivedMessages) + ticks + IF listening THEN 0 ELSE 1

\* receiveHandler(msg), with the "message" listener of the engine:
\* processCommand up to its first filesystem call
ReceiveHandler(msg) ==
  /\ Events < MaxEvents
  /\ receivedMessages' = Append(receivedMessages, msg)
  /\ emitted' = Append(emitted, receiveHandlerEmits(msg))
  /\ LET dispatched == listening /\ isCommand(msg)
         st == IF dispatched THEN processCommandStart(msg)
               ELSE [at |-> "none", out |-> <<>>]
         busy == \E i \in 1..Len(tasks) : Active(tasks[i])
     IN
     /\ tasks' = Append(tasks,
                   [at |-> st.at, loc |-> NoVal, hung |-> FALSE,
                    cmd |-> IF dispatched THEN JSONparse(msg.body).obj ELSE <<>>])
     /\ Outbound(st.out)
     /\ handed' = Append(handed, st.out)
     /\ fsops' = Append(fsops, {})
     /\ snap' = Append(
          [i \in 1..Len(snap) |->
             IF dispatched /\ Active(tasks[i])
             THEN [snap[i] EXCEPT !.solo = FALSE] ELSE snap[i]],
          [before |-> fs, after |-> fs, solo |-> ~busy, attached |-> listening])
  /\ UNCHANGED <<listening, fs, ticks, lastTick, lastUpload, faulty, lastLookup>>

\* task i resumes: its pending filesystem call completes and its handler
\* runs on
Resume(i, r) ==
  /\ fs' = r.fs
  /\ tasks' = [tasks EXCEPT ![i].at = r.at, ![i].loc = r.loc]
  /\ Outbound(r.out)
  /\ handed' = [handed EXCEPT ![i] = @ \o r.out]
  /\ fsops' = [fsops EXCEPT ![i] = @ \cup {r.op}]
  /\ snap' = [snap EXCEPT ![i].after = r.fs]
  /\ UNCHANGED <<receivedMessages, listening, ticks, emitted, lastTick,
                 lastUpload, faulty, lastLookup>>

\* a dispatcher that resumes a command only when every command received
\* before it has returned
Suspended_InOrder(i, action) ==
  /\ i \in 1..Len(tasks)
  /\ Active(tasks[i])
  /\ ~tasks[i].hung
  /\ tasks[i].cmd.action = action
  /\ \A j \in 1..(i - 1) : ~Active(tasks[j])

\* task i waits for a filesystem call of the handler of `action` that will
\* return
Suspended(i, action) ==
  /\ i \in 1..Len(tasks)
  /\ Active(tasks[i])
  /\ ~tasks[i].hung
  /\ tasks[i].cmd.action = action

ListFiles == \E i \in 1..MaxEvents :
  Suspended(i, "list") /\ Resume(i, listFilesCont(tasks[i], fs))

SaveFile == \E i \in 1..MaxEvents :
  Suspended(i, "upload") /\ Resume(i, saveFileCont(tasks[i], fs))

DownloadFile == \E i \in 1..MaxEvents :
  Suspended(i, "download") /\ Resume(i, downloadFileCont(tasks[i], fs))

DeleteFile == \E i \in 1..MaxEvents :
  Suspended(i, "delete") /\ Resume(i, deleteFileCont(tasks[i], fs))

CreateDirectory == \E i \in 1..MaxEvents :
  Suspended(i, "mkdir") /\ Resume(i, createDirectoryCont(tasks[i], fs))

GetFileInfo == \E i \in 1..MaxEvents :
  Suspended(i, "info") /\ Resume(i, getFileInfoCont(tasks[i], fs))

RenameFile == \E i \in 1..MaxEvents :
  Suspended(i, "rename") /\ Resume(i, renameFileCont(tasks[i], fs))

\* handleChunkUpdate(updateData)
HandleChunkUpdate(updateData) ==
  /\ Events < MaxEvents
  /\ ticks' = ticks + 1
  /\ Outbound(ProgressResponses(updateData))
  /\ lastTick' = [updates |-> updateData, out |-> ProgressResponses(updateData)]
  /\ UNCHANGED <<receivedMessages, listening, fs, tasks, emitted, handed,
                 fsops, snap, lastUpload, faulty, lastLookup>>

\* destroy()
Destroy ==
  /\ Events < MaxEvents
  /\ listening
  /\ listening' = FALSE
  /\ UNCHANGED <<receivedMessages, sentMessages, chunkerQueue, fs, tasks,
                 ticks, emitted, published, handed, fsops, snap, lastTick,
                 lastUpload, faulty, attempts, lastLookup>>

\* upload(msg), called by a client of the controller other than the engine
Upload(msg) ==
  /\ Len(sentMessages) < MaxEvents
  /\ LET c == upload(Controller, msg, listening) IN
     /\ sentMessages' = c.sent
     /\ published' = c.published
     /\ chunkerQueue' = c.queue
     /\ attempts' = c.attempts
     /\ lastUpload' = [called |-> TRUE, msg |-> msg, threw |-> c.threw,
                       before |-> [sent |-> sentMessages,
                                   received |-> receivedMessages,
                                   published |-> published],
                       after |-> [sent |-> c.sent,
                                  received |-> receivedMessages,
                                  published |-> c.published]]
  /\ UNCHANGED <<receivedMessages, listening, fs, tasks, ticks, emitted,
                 handed, fsops, snap, lastTick, faulty, lastLookup>>

Receive == \E msg \in InboundMessages : ReceiveHandler(msg)

ChunkUpdate == \E updateData \in Ticks : HandleChunkUpdate(updateData)

Next ==
  \/ Receive
  \/ ListFiles
  \/ SaveFile
  \/ DownloadFile
  \/ DeleteFile
  \/ CreateDirectory
  \/ GetFileInfo
  \/ RenameFile
  \/ ChunkUpdate
  \/ Destroy

Spec == Init /\ [][Next]_vars

(***************************************************************************)
(* The message controller under any client: messages of every kind come   *)
(* in and are passed to upload().                                          *)
(***************************************************************************)
OutboundMessages ==
  {[type |-> k, body |-> "body"] : k \in {"image", "text", "video", ""}}
  \cup {[type |-> "file", fileName |-> <<"a">>, fileSize |-> Len(F1),
         body |-> Base64Encode(F1)],
        [body |-> "body"],
        [type |-> "text", body |-> "body", deviceId |-> "caller"]}

\* messages of each kind, and one that is no object
ControllerInbound ==
  {m \in InboundMessages :
     \/ m.type # "text"
     \/ m.body \in {Text([action |-> "ping"]), Text([action |-> "list"]),
                    [syntax |-> "invalid"]}}
  \cup {[type |-> "file", fileName |-> <<"a">>, fileSize |-> Len(F1),
         body |-> Base64Encode(F1)]}

\* getLatestImage / getLatestText / getLatestFile / getLatest(type) and
\* getLatestMessage, called by a client of the controller: `which` is the
\* type looked up, "*" for getLatestMessage
Lookup(which) ==
  /\ lastLookup.n < MaxLookups
  /\ UNCHANGED <<receivedMessages, sentMessages, listening, chunkerQueue, fs,
                 tasks, ticks, emitted, published, handed, fsops, snap,
                 lastTick, lastUpload, faulty, attempts>>
  /\ lastLookup' =
       [called |-> TRUE, n |-> lastLookup.n + 1, which |-> which,
        result |-> IF which = "*" THEN getLatestMessage(receivedMessages)
                   ELSE getLatest(receivedMessages, which),
        before |-> [received |-> receivedMessages, sent |-> sentMessages],
        after |-> [received |-> receivedMessages', sent |-> sentMessages']]

ClientUpload == \E msg \in OutboundMessages : Upload(msg)

ClientLookup == \E which \in {"image", "text", "file", "video", "*"} : Lookup(which)

\* the lookups of a client between messages that come in and go out
LookupInbound ==
  {m \in ControllerInbound : m.type = "text" => m.body.syntax = "object"}

LookupReceive == \E msg \in LookupInbound : ReceiveHandler(msg)

LookupUpload == Upload([type |-> "text", body |-> "body"])

NextLookup ==
  \/ LookupReceive
  \/ LookupUpload
  \/ ClientLookup

InitLookup == Init /\ fs = EmptyStorage

SpecLookup == InitLookup /\ [][NextLookup]_vars

ClientReceive == \E msg \in ControllerInbound : ReceiveHandler(msg)

NextController ==
  \/ ClientReceive
  \/ ClientUpload
  \/ Destroy

SpecController == Init /\ [][NextController]_vars

(***************************************************************************)
(* The chunk progress aggregator over the whole range of progress.         *)
(***************************************************************************)
ProgressUpdates ==
  {[messageId |-> "m1", lastChunkId |-> l, progress |-> p] :
     l \in {0, 1, 2, 3, 4, 9}, p \in 0..100}

PartnerUpdates ==
  {[messageId |-> "m2", lastChunkId |-> 2, progress |-> 34],
   [messageId |-> "m3", lastChunkId |-> 4, progress |-> 100]}

PairedUpdates == {u \in ProgressUpdates : u.progress \in {0, 50, 100}}

ProgressTicks ==
  {<<u>> : u \in ProgressUpdates}
  \cup {<<u, v>> : u \in PairedUpdates, v \in PartnerUpdates}
  \cup {<<v, u>> : u \in PairedUpdates, v \in PartnerUpdates}

InitProgress == Init /\ fs = EmptyStorage

NextProgress ==
  \E updateData \in ProgressTicks :
    ticks < MaxProgressTicks /\ HandleChunkUpdate(updateData)

SpecProgress == InitProgress /\ [][NextProgress]_vars

(***************************************************************************)
(* The engine beside collaborators whose publish can fail: the chunker's   *)
(* publish throws, or the client's publish rejects, while it is faulty.    *)
(***************************************************************************)
Collaborators == {"none", "streamrChunker", "streamrClient"}

\* the publish of a collaborator starts to fail, or publishing works again
Fault(who) ==
  /\ faulty.changes < MaxFaults
  /\ who # faulty.who
  /\ faulty' = [who |-> who, changes |-> faulty.changes + 1]
  /\ UNCHANGED <<receivedMessages, sentMessages, listening, chunkerQueue, fs,
                 tasks, ticks, emitted, published, handed, fsops, snap,
                 lastTick, lastUpload, attempts, lastLookup>>

PublishInbound ==
  {[type |-> "text", body |-> b] :
     b \in {Text([action |-> "ping"]), Text([action |-> "bogus"]),
            Text([action |-> "list"]),
            Text([action |-> "download", fileName |-> <<"a">>]),
            [syntax |-> "invalid"]}}

ReceivePublish == \E msg \in PublishInbound : ReceiveHandler(msg)

Faults == \E who \in Collaborators : Fault(who)

NextPublish ==
  \/ ReceivePublish
  \/ ListFiles
  \/ DownloadFile
  \/ ChunkUpdate
  \/ Destroy
  \/ Faults

SpecPublish == Init /\ [][NextPublish]_vars

(***************************************************************************)
(* The engine on a filesystem whose calls may never return.  A filesystem  *)
(* call that returns resumes its handler: the event loop runs the          *)
(* continuation of every promise that settles.                             *)
(***************************************************************************)
\* the filesystem call that task i waits for never returns
Hang(i) ==
  /\ i \in 1..Len(tasks)
  /\ Active(tasks[i])
  /\ ~tasks[i].hung
  /\ tasks' = [tasks EXCEPT ![i].hung = TRUE]
  /\ UNCHANGED <<receivedMessages, sentMessages, listening, chunkerQueue, fs,
                 ticks, emitted, published, handed, fsops, snap, lastTick,
                 lastUpload, faulty, attempts, lastLookup>>

HangInbound ==
  {[type |-> "text", body |-> Text(c)] :
     c \in {[action |-> "ping"], [action |-> "list"],
            [action |-> "download", fileName |-> <<"a">>],
            [action |-> "delete", fileName |-> <<"a">>]}}

ReceiveHang == \E msg \in HangInbound : ReceiveHandler(msg)

Hangs == \E i \in 1..MaxEvents : Hang(i)

NextHang ==
  \/ ReceiveHang
  \/ ListFiles
  \/ DownloadFile
  \/ DeleteFile
  \/ Hangs

\* the step of task i, whatever its handler
Continue(i) ==
  \/ Suspended(i, "list") /\
       \E r \in {listFilesCont(tasks[i], fs)} : Resume(i, r)
  \/ Suspended(i, "download") /\
       \E r \in {downloadFileCont(tasks[i], fs)} : Resume(i, r)
  \/ Suspended(i, "delete") /\
       \E r \in {deleteFileCont(tasks[i], fs)} : Resume(i, r)

Scheduling == \A i \in 1..MaxEvents : WF_vars(Continue(i))

SpecHang == Init /\ [][NextHang]_vars /\ Scheduling

(***************************************************************************)
(* The engine under a rename and the commands that create its destination. *)
(***************************************************************************)
RenameInbound ==
  {[type |-> "text", body |-> Text(c)] :
     c \in {[action |-> "rename", oldName |-> <<"a">>, newName |-> <<"c">>],
            [action |-> "upload", fileName |-> <<"c">>,
             data |-> Base64Encode(F3)],
            [action |-> "mkdir", dirName |-> <<"c">>]}}

ReceiveRename == \E msg \in RenameInbound : ReceiveHandler(msg)

NextRename ==
  \/ ReceiveRename
  \/ RenameFile
  \/ SaveFile
  \/ CreateDirectory

SpecRename == Init /\ [][NextRename]_vars

(***************************************************************************)
(* Properties.                                                             *)
(***************************************************************************)
KnownActions ==
  {"ping", "list", "upload", "download", "delete", "mkdir", "info", "rename"}

Statuses == {"success", "error", "info"}

Range(seq) == {seq[k] : k \in 1..Len(seq)}

IsText(m) == m.type = "text"

IsFile(m) == m.type = "file"

\* processCommand ran for message i / has returned
Dispatched(i) == tasks[i].at # "none"

Returned(i) == tasks[i].at = "done"

\* the Response of a returned command: the last message it passed to upload()
Resp(i) == handed[i][Len(handed[i])].body.obj

ActionOf(i) == Get(tasks[i].cmd, "action")

\* commands i and i+1 ran one after the other, with no other command in flight
Consecutive(i) ==
  /\ Dispatched(i) /\ Returned(i) /\ snap[i].solo
  /\ Dispatched(i + 1) /\ Returned(i + 1) /\ snap[i + 1].solo

\* no existing prefix of path p is a file
NoFileOnPath(f, p) == \A q \in Prefixes(p) : q \in DOMAIN f => f[q].dir

\* C1: a text message delivered to the dispatcher has passed no Response to
\* upload() while its handler is suspended at a filesystem call, and exactly
\* one text message, which is in the sent history, once processCommand has
\* returned.
C1_ExactlyOneResponse ==
  \A i \in 1..Len(tasks) : Dispatched(i) =>
    /\ Len(SelectSeq(handed[i], IsText)) = IF Returned(i) THEN 1 ELSE 0
    /\ Range(handed[i]) \subseteq Range(sentMessages)

\* C1 witness: a command whose filesystem call failed has returned
C1_Witness ==
  \E i \in 1..Len(tasks) :
    /\ Dispatched(i) /\ Returned(i)
    /\ fsops[i] # {}
    /\ Resp(i).status = "error"
    /\ Len(Resp(i).message) = 2

\* C2: upload(msg) throws exactly when msg.type is none of image, text, file,
\* and then the sent history, the received history and the "publish" events
\* are what they were; otherwise it prepends msg to the sent history and
\* emits one "publish" event.
C2_UploadSucceedsIffSupportedKind ==
  lastUpload.called =>
    /\ lastUpload.threw =
         (Get(lastUpload.msg, "type") \notin {"image", "text", "file"})
    /\ lastUpload.threw => lastUpload.after = lastUpload.before
    /\ ~lastUpload.threw =>
         /\ lastUpload.after.sent = <<lastUpload.msg>> \o lastUpload.before.sent
         /\ Len(lastUpload.after.published)
              = Len(lastUpload.before.published) + 1
         /\ lastUpload.after.received = lastUpload.before.received

\* C2 witness: an upload of an unsupported kind was refused with messages in
\* the histories
C2_Witness ==
  /\ lastUpload.called
  /\ lastUpload.threw
  /\ lastUpload.before.sent # <<>>
  /\ lastUpload.before.received # <<>>

\* C3: a command (a JSON object) whose action is none of the eight known
\* ones, or is missing, returns at once with one Response of status error and
\* message "Unknown command", having made no filesystem call.
C3_UnknownCommand ==
  \A i \in 1..Len(tasks) :
    (/\ Dispatched(i)
     /\ receivedMessages[i].body.syntax = "object"
     /\ ActionOf(i) \notin KnownActions)
    =>
    /\ Returned(i)
    /\ Len(handed[i]) = 1
    /\ IsText(handed[i][1])
    /\ Resp(i).status = "error"
    /\ Resp(i).message = <<"Unknown command">>
    /\ fsops[i] = {}
    /\ snap[i].after = snap[i].before

\* C3 witness: a command with no action field was answered while another
\* command was in flight
C3_Witness ==
  \E i \in 1..Len(tasks) :
    /\ Dispatched(i) /\ Returned(i)
    /\ receivedMessages[i].body.syntax = "object"
    /\ ~Has(tasks[i].cmd, "action")
    /\ \E j \in 1..Len(tasks) : Active(tasks[j])

\* C4: every Response in the sent history carries an action field and a
\* status field, with status success, error or info.
C4_ResponsesCarryActionAndStatus ==
  \A k \in 1..Len(sentMessages) :
    IsText(sentMessages[k]) =>
      /\ Has(sentMessages[k].body.obj, "action")
      /\ Has(sentMessages[k].body.obj, "status")
      /\ sentMessages[k].body.obj.status \in Statuses

\* C5: every filesystem call of a handler targets a path inside storageDir.
C5_OperationsInsideStorageRoot ==
  \A i \in 1..Len(tasks) : \A o \in fsops[i] :
    IsPrefix(storageDir, o.path) /\ IsPrefix(storageDir, o.to)

\* C6: a rename that ran with no other command in flight, and whose
\* destination existed or whose source did not exist when it was received,
\* answers with status error, never calls fs.rename and leaves the
\* filesystem as it was.
C6_RenameConflict ==
  \A i \in 1..Len(tasks) :
    (/\ Dispatched(i) /\ Returned(i) /\ snap[i].solo
     /\ ActionOf(i) = "rename"
     /\ ~Falsy(tasks[i].cmd, "oldName") /\ ~Falsy(tasks[i].cmd, "newName")
     /\ \/ EntryPath(tasks[i].cmd, "newName") \in DOMAIN snap[i].before
        \/ EntryPath(tasks[i].cmd, "oldName") \notin DOMAIN snap[i].before)
    =>
    /\ Resp(i).status = "error"
    /\ \A o \in fsops[i] : o.op # "rename"
    /\ snap[i].after = snap[i].before

\* C6 witness: a rename whose source and destination both existed, and
\* differ, has returned
C6_Witness ==
  \E i \in 1..Len(tasks) :
    /\ Dispatched(i) /\ Returned(i) /\ snap[i].solo
    /\ ActionOf(i) = "rename"
    /\ ~Falsy(tasks[i].cmd, "oldName") /\ ~Falsy(tasks[i].cmd, "newName")
    /\ EntryPath(tasks[i].cmd, "newName") \in DOMAIN snap[i].before
    /\ EntryPath(tasks[i].cmd, "oldName") \in DOMAIN snap[i].before
    /\ EntryPath(tasks[i].cmd, "newName") # EntryPath(tasks[i].cmd, "oldName")

\* C7: an upload of the base64 encoding of a content F under a name the
\* filesystem admits, followed by the download of that name with no other
\* command between them: both answer success, and the download passes one
\* file message whose body decodes to F.
C7_UploadDownloadRoundTrip ==
  \A i \in 1..(Len(tasks) - 1) : \A F \in Contents :
    LET u == tasks[i].cmd
        d == tasks[i + 1].cmd
    IN
    (/\ Consecutive(i)
     /\ ActionOf(i) = "upload" /\ ActionOf(i + 1) = "download"
     /\ Has(u, "fileName") /\ u.fileName # <<>>
     /\ Has(d, "fileName") /\ d.fileName = u.fileName
     /\ OrEmpty(d, "path") = OrEmpty(u, "path")
     /\ Has(u, "data") /\ u.data = Base64Encode(F)
     /\ NoFileOnPath(snap[i].before, DirPath(u))
     /\ ~(/\ EntryPath(u, "fileName") \in DOMAIN snap[i].before
          /\ snap[i].before[EntryPath(u, "fileName")].dir))
    =>
    /\ Resp(i).status = "success"
    /\ Resp(i + 1).status = "success"
    /\ Len(SelectSeq(handed[i + 1], IsFile)) = 1
    /\ Base64Decode(SelectSeq(handed[i + 1], IsFile)[1].body) = F

ClaimedReceived(u) == (u.progress * (u.lastChunkId + 1) + 50) \div 100

ClaimedEmits(u) ==
  \/ ClaimedReceived(u) % 2 = 0
  \/ ClaimedReceived(u) = u.lastChunkId + 1

\* C9: the Responses of a tick are, in order, one per update whose received
\* count is even or equals total, each with action upload-progress, status
\* info and the update's messageId, received, total and progress; they are
\* the last "publish" events; an update with progress 100 has its Response;
\* with total 10 the updates answered are those with received in
\* {0, 2, 4, 6, 8, 10}.
C9_ProgressSampling ==
  LET ups == SelectSeq(lastTick.updates, ClaimedEmits)
      out == lastTick.out
      n   == Len(published)
  IN
  /\ Len(out) = Len(ups)
  /\ \A k \in 1..Len(out) :
       /\ IsText(out[k])
       /\ out[k].body.obj.action = "upload-progress"
       /\ out[k].body.obj.status = "info"
       /\ out[k].body.obj.messageId = ups[k].messageId
       /\ out[k].body.obj.total = ups[k].lastChunkId + 1
       /\ out[k].body.obj.received = ClaimedReceived(ups[k])
       /\ out[k].body.obj.progress = ups[k].progress
       /\ published[n - Len(out) + k].body = out[k].body
  /\ \A u \in Range(lastTick.updates) :
       /\ u.progress = 100 => ClaimedEmits(u)
       /\ u.lastChunkId + 1 = 10 =>
            (ClaimedEmits(u) <=> ClaimedReceived(u) \in {0, 2, 4, 6, 8, 10})

\* C9 witness: a tick of two updates, the first complete with an odd total,
\* the second silent
C9_Witness ==
  /\ Len(lastTick.updates) = 2
  /\ lastTick.updates[1].progress = 100
  /\ (lastTick.updates[1].lastChunkId + 1) % 2 = 1
  /\ ~ClaimedEmits(lastTick.updates[2])
  /\ Len(lastTick.out) = 1

\* C10: a download that answered success passed exactly one file message,
\* named as the command names it, to upload() and passed it before the
\* Response (when no other command was in flight its body is the encoding of
\* the file's content); a download that answered error passed no file
\* message.
C10_DownloadFileThenResponse ==
  \A i \in 1..Len(tasks) :
    (Dispatched(i) /\ Returned(i) /\ ActionOf(i) = "download") =>
      LET texts == SelectSeq(handed[i], IsText)
          files == SelectSeq(handed[i], IsFile)
          status == texts[1].body.obj.status
      IN
      /\ status \in {"success", "error"}
      /\ status = "error" => files = <<>>
      /\ status = "success" =>
           /\ Len(files) = 1
           /\ handed[i] = <<files[1], texts[1]>>
           /\ files[1].fileName = tasks[i].cmd.fileName
           /\ snap[i].solo =>
                Base64Decode(files[1].body)
                  = snap[i].before[EntryPath(tasks[i].cmd, "fileName")].data

\* C10 witness: a download has answered success
C10_Witness ==
  \E i \in 1..Len(tasks) :
    /\ Dispatched(i) /\ Returned(i)
    /\ ActionOf(i) = "download"
    /\ Len(handed[i]) = 2
    /\ IsFile(handed[i][1])
    /\ Len(handed[i][1].body) > 0
    /\ handed[i][2].body.obj.status = "success"

\* the fields a command of each action requires
Required(action) ==
  IF action = "upload" THEN {"fileName", "data"}
  ELSE IF action \in {"download", "delete", "info"} THEN {"fileName"}
  ELSE IF action = "mkdir" THEN {"dirName"}
  ELSE IF action = "rename" THEN {"oldName", "newName"}
  ELSE {}

LacksField(i) == \E f \in Required(ActionOf(i)) : ~Has(tasks[i].cmd, f)

\* C11: a command that lacks a field its action requires has returned as soon
\* as it is dispatched, with one Response of status error that echoes the
\* action; it made no filesystem call and the filesystem is as it was at
\* receipt.
C11_MissingFieldNoEffect ==
  \A i \in 1..Len(tasks) :
    (/\ Dispatched(i)
     /\ receivedMessages[i].body.syntax = "object"
     /\ LacksField(i))
    =>
    /\ Returned(i)
    /\ Len(handed[i]) = 1
    /\ IsText(handed[i][1])
    /\ Resp(i).status = "error"
    /\ Resp(i).action = ActionOf(i)
    /\ fsops[i] = {}
    /\ snap[i].after = snap[i].before
    /\ snap[i].before = fs \/ \E j \in 1..Len(tasks) : j # i /\ fsops[j] # {}

\* C11 witness: a rename with oldName and no newName was answered, its
\* source in place
C11_Witness ==
  \E i \in 1..Len(tasks) :
    /\ Dispatched(i) /\ Returned(i)
    /\ ActionOf(i) = "rename"
    /\ Has(tasks[i].cmd, "oldName") /\ ~Has(tasks[i].cmd, "newName")
    /\ EntryPath(tasks[i].cmd, "oldName") \in DOMAIN fs
    /\ Resp(i).status = "error"

\* C12: a delete that ran with no other command in flight: when its target
\* did not exist at receipt, its Response is {action: delete, status: error,
\* message: "File not found"} and the filesystem is as it was; when its
\* target existed, its Response has status success, the target and every
\* path below it are gone and every other path is as it was.
C12_DeleteFrame ==
  \A i \in 1..Len(tasks) :
    (/\ Dispatched(i) /\ Returned(i) /\ snap[i].solo
     /\ ActionOf(i) = "delete"
     /\ ~Falsy(tasks[i].cmd, "fileName"))
    =>
    LET target == EntryPath(tasks[i].cmd, "fileName")
        before == snap[i].before
        after  == snap[i].after
    IN
    /\ target \notin DOMAIN before =>
         /\ Resp(i) = [action |-> "delete", status |-> "error",
                       message |-> <<"File not found">>]
         /\ after = before
    /\ target \in DOMAIN before =>
         /\ Resp(i).action = "delete"
         /\ Resp(i).status = "success"
         /\ \A q \in DOMAIN before \cup DOMAIN after :
              IF IsPrefix(target, q) THEN q \notin DOMAIN after
              ELSE q \in DOMAIN before /\ q \in DOMAIN after /\ after[q] = before[q]

\* C12 witness: a delete removed a directory that held an entry
C12_Witness ==
  \E i \in 1..Len(tasks) :
    /\ Dispatched(i) /\ Returned(i) /\ snap[i].solo
    /\ ActionOf(i) = "delete"
    /\ ~Falsy(tasks[i].cmd, "fileName")
    /\ EntryPath(tasks[i].cmd, "fileName") \in DOMAIN snap[i].before
    /\ snap[i].before[EntryPath(tasks[i].cmd, "fileName")].dir
    /\ Children(snap[i].before, EntryPath(tasks[i].cmd, "fileName")) # {}
    /\ Resp(i).status = "success"

Count(seq, Test(_)) == Len(SelectSeq(seq, Test))

\* C13: every call of receiveHandler appended its message to the received
\* history, in order of arrival, and emitted the event "message" once with
\* that message; for a message of type image, text or file it emitted one
\* more event, named by the type, with that message, and for a message of
\* any other type no other event.
C13_ReceiveNeverDrops ==
  /\ Len(emitted) = Len(receivedMessages)
  /\ \A i \in 1..Len(emitted) :
       LET msg == receivedMessages[i]
           Generic(e) == e.name = "message"
           Specific(e) == e.name # "message"
           OfKind(e) == e.name = msg.type
       IN
       /\ \A k \in 1..Len(emitted[i]) : emitted[i][k].msg = msg
       /\ Count(emitted[i], Generic) = 1
       /\ msg.type \in {"image", "text", "file"} =>
            Count(emitted[i], Specific) = 1 /\ Count(emitted[i], OfKind) = 1
       /\ msg.type \notin {"image", "text", "file"} =>
            Count(emitted[i], Specific) = 0

\* C13 witness: a message of type video arrived after a message of type file
C13_Witness ==
  /\ Len(receivedMessages) = 2
  /\ receivedMessages[1].type = "file"
  /\ receivedMessages[2].type = "video"
  /\ Len(emitted[2]) = 1

Supported(m) == Has(m, "type") /\ m.type \in {"image", "text", "file"}

\* C14 as stated: every message of the received history, of the sent history
\* and every message emitted with "publish" has a type among image, text and
\* file, and every message emitted with "publish" carries the device
\* identifier of the engine.
C14_EveryMessageSupportedKind ==
  /\ \A k \in 1..Len(receivedMessages) : Supported(receivedMessages[k])
  /\ \A k \in 1..Len(sentMessages) : Supported(sentMessages[k])
  /\ \A k \in 1..Len(published) :
       Supported(published[k]) /\ published[k].deviceId = DeviceId

\* C14 amended: every message of the sent history and every message emitted
\* with "publish" has a type among image, text and file, and every message
\* emitted with "publish" carries the device identifier of the engine,
\* whatever the caller supplied; the received history holds every message
\* that arrived, of whatever type.
C14_OutboundSupportedKind ==
  /\ \A k \in 1..Len(sentMessages) : Supported(sentMessages[k])
  /\ \A k \in 1..Len(published) :
       Supported(published[k]) /\ published[k].deviceId = DeviceId
  /\ Len(published) = Len(sentMessages)
  /\ \A k \in 1..Len(sentMessages) :
       published[Len(published) + 1 - k].type = sentMessages[k].type
  /\ Len(receivedMessages) = Len(emitted)

\* C14 witness: a message that names another device was passed to upload()
\* and a message of type video is in the received history
C14_Witness ==
  /\ \E k \in 1..Len(sentMessages) :
       Has(sentMessages[k], "deviceId") /\ sentMessages[k].deviceId # DeviceId
  /\ \E k \in 1..Len(receivedMessages) : receivedMessages[k].type = "video"

\* C15: a received message whose type is not text is never dispatched: no
\* handler ran for it, it passed nothing to upload(), made no filesystem
\* call and left the filesystem as it was, whatever its body; its events
\* are those of receiveHandler alone.
C15_NonTextIgnored ==
  \A i \in 1..Len(tasks) :
    receivedMessages[i].type # "text" =>
      /\ ~Dispatched(i)
      /\ tasks[i].cmd = <<>>
      /\ handed[i] = <<>>
      /\ fsops[i] = {}
      /\ snap[i].after = snap[i].before
      /\ emitted[i] = receiveHandlerEmits(receivedMessages[i])

\* C15 witness: an image message whose body is a well-formed mkdir command
\* arrived while the engine listened, and the directory it names is absent
C15_Witness ==
  \E i \in 1..Len(tasks) :
    /\ receivedMessages[i].type = "image"
    /\ snap[i].attached
    /\ receivedMessages[i].body.syntax = "object"
    /\ receivedMessages[i].body.obj.action = "mkdir"
    /\ EntryPath(receivedMessages[i].body.obj, "dirName") \notin DOMAIN fs
    /\ Len(sentMessages) = 0

\* the filesystem calls of command i that failed
Failed(i) == {o \in fsops[i] : o.err # ""}

\* fs.access of renameFile on the new path, whose failure lets the rename go on
DestinationProbe(i, o) ==
  /\ ActionOf(i) = "rename"
  /\ o.op = "access"
  /\ o.path = EntryPath(tasks[i].cmd, "newName")

\* the failed calls of command i that are no fs.access
Caught(i) == {o \in Failed(i) : o.op # "access"}

\* the failed fs.access calls of command i on the entry the command names
Missing(i) == {o \in Failed(i) : o.op = "access" /\ ~DestinationProbe(i, o)}

AnsweredOnce(i) == Len(SelectSeq(handed[i], IsText)) = 1

\* every text message that arrived while the engine listened was dispatched,
\* and has one Response once it returned
AllDispatched ==
  \A j \in 1..Len(tasks) :
    (snap[j].attached /\ IsText(receivedMessages[j])) =>
      Dispatched(j) /\ (Returned(j) => AnsweredOnce(j))

\* C16 as stated: a command one of whose filesystem calls failed answers with
\* one Response, of status error, that echoes the action and carries a
\* message; commands received afterwards are dispatched and answered.
C16_AnyFailureIsErrorResponse ==
  /\ \A i \in 1..Len(tasks) :
       (Dispatched(i) /\ Returned(i) /\ Failed(i) # {}) =>
         /\ AnsweredOnce(i)
         /\ Resp(i).status = "error"
         /\ Has(Resp(i), "action") /\ Resp(i).action = ActionOf(i)
         /\ Has(Resp(i), "message")
  /\ AllDispatched

\* C16 amended: a command one of whose filesystem calls other than fs.access
\* failed answers with one Response, of status error, that echoes the action
\* and whose message is the operation followed by the cause of that call; a
\* command whose fs.access of the entry it names failed answers with one
\* Response of status error that echoes the action, with a message; the
\* failure of fs.access on the new path of a rename is no error; commands
\* received afterwards are dispatched and answered.
C16_CaughtFailureIsErrorResponse ==
  /\ \A i \in 1..Len(tasks) :
       (Dispatched(i) /\ Returned(i)) =>
         /\ AnsweredOnce(i)
         /\ Caught(i) # {} =>
              /\ Resp(i).status = "error"
              /\ Has(Resp(i), "action") /\ Resp(i).action = ActionOf(i)
              /\ Len(Resp(i).message) = 2
              /\ \E o \in Caught(i) : Resp(i).message[2] = o.err
              /\ Cardinality(Caught(i)) = 1
         /\ Missing(i) # {} =>
              /\ Resp(i).status = "error"
              /\ Has(Resp(i), "action") /\ Resp(i).action = ActionOf(i)
              /\ Len(Resp(i).message) = 1
  /\ AllDispatched

\* C16 witness: a command whose filesystem call failed with a cause was
\* answered, and a command received after it was answered with success
C16_Witness ==
  \E i \in 1..Len(tasks) : \E j \in 1..Len(tasks) :
    /\ i < j
    /\ Dispatched(i) /\ Returned(i) /\ Caught(i) # {}
    /\ Dispatched(j) /\ Returned(j) /\ fsops[j] # {}
    /\ Resp(j).status = "success"

ToChunker(a) == a.to = "streamrChunker"

ToClient(a) == a.to = "streamrClient"

\* C17: with the chunker's publish or the client's publish failing: every
\* message emitted with "publish" while the engine listens is passed once to
\* streamrChunker.publish, and once to streamrClient.publish when the chunker
\* took it, never again; a dispatched command has passed no Response to
\* upload() before it returns and exactly one once it returned, and that
\* Response is in the sent history whether its publish failed or not; every
\* text message that arrived while the engine listened was dispatched.
C17_PublishFailureSwallowed ==
  LET chunker == SelectSeq(attempts, ToChunker)
      client  == SelectSeq(attempts, ToClient)
      Taken(a) == a.to = "streamrChunker" /\ a.ok
  IN
  /\ Len(chunker) <= Len(published)
  /\ \A k \in 1..Len(chunker) : chunker[k].message = published[k]
  /\ listening => Len(chunker) = Len(published)
  /\ Len(client) = Count(attempts, Taken)
  /\ Len(chunkerQueue) = Len(client)
  /\ \A k \in 1..Len(client) : client[k].message = chunkerQueue[k]
  /\ \A i \in 1..Len(tasks) : Dispatched(i) =>
       /\ Len(SelectSeq(handed[i], IsText)) = IF Returned(i) THEN 1 ELSE 0
       /\ Range(handed[i]) \subseteq Range(sentMessages)
  /\ AllDispatched

\* C17 witness: the publish of the first command's Response failed, and the
\* Response of a command received afterwards was published
C17_Witness ==
  /\ Len(tasks) = 2
  /\ Returned(1) /\ Returned(2)
  /\ \E k \in 1..Len(attempts) : \E n \in 1..Len(attempts) :
       /\ k < n
       /\ ~attempts[k].ok
       /\ attempts[k].message.body = handed[1][Len(handed[1])].body
       /\ attempts[n].ok /\ attempts[n].to = "streamrClient"
       /\ attempts[n].message.body = handed[2][Len(handed[2])].body
       /\ attempts[n].message # attempts[k].message

\* the positions of the messages of a type in a history
PositionsOf(received, type) ==
  {k \in 1..Len(received) : received[k].type = type}

Latest(S) == CHOOSE k \in S : \A j \in S : j <= k

\* C19: a lookup by type returns the message of that type received last, or
\* undefined when none of that type was received; the overall lookup returns
\* the message received last, or undefined when none was received; a lookup
\* leaves the received and the sent history as they were, and its result
\* does not depend on the sent history.
C19_LatestLookups ==
  lastLookup.called =>
    LET received == lastLookup.before.received
        hits == IF lastLookup.which = "*" THEN 1..Len(received)
                ELSE PositionsOf(received, lastLookup.which)
    IN
    /\ hits = {} => lastLookup.result = NoMessage
    /\ hits # {} => lastLookup.result = received[Latest(hits)]
    /\ lastLookup.after = lastLookup.before

\* C19 witness: a lookup of the text messages returned the second of two
\* different text messages, a text message having been sent
C19_Witness ==
  /\ lastLookup.called
  /\ lastLookup.which = "text"
  /\ Len(lastLookup.before.received) = 2
  /\ lastLookup.before.received[1].type = "text"
  /\ lastLookup.before.received[2].type = "text"
  /\ lastLookup.before.received[1] # lastLookup.before.received[2]
  /\ lastLookup.result = lastLookup.before.received[2]
  /\ \E k \in 1..Len(lastLookup.before.sent) :
       lastLookup.before.sent[k].type = "text"

\* nothing was handed to the chunker that the controller did not emit while
\* the engine listened
NothingHandedAfterTeardown ==
  /\ Len(chunkerQueue) <= Len(published)
  /\ \A k \in 1..Len(chunkerQueue) : chunkerQueue[k] = published[k]
  /\ \A i \in 1..Len(tasks) : ~snap[i].attached => ~Dispatched(i) /\ handed[i] = <<>>

\* C18: once destroy() has run, no message that arrives is dispatched,
\* nothing more is handed to the chunker, and every lookup of the received
\* history returns undefined.
C18_TeardownDiscardsHistory ==
  ~listening =>
    /\ NothingHandedAfterTeardown
    /\ getLatestMessage(receivedMessages) = NoMessage
    /\ \A type \in {"image", "text", "file"} :
         getLatest(receivedMessages, type) = NoMessage

Hung(i) == i \in 1..Len(tasks) /\ tasks[i].hung

Answered(i) == i \in 1..Len(tasks) /\ Returned(i) /\ AnsweredOnce(i)

\* C20: a command one of whose filesystem calls never returns never passes a
\* Response to upload(); every other dispatched command, received before or
\* after it, eventually returns with its one Response unless a filesystem
\* call of its own never returns.
C20_HangIsolated ==
  /\ [](\A i \in 1..Len(tasks) :
          tasks[i].hung => ~Returned(i) /\ SelectSeq(handed[i], IsText) = <<>>)
  /\ \A i \in 1..MaxEvents :
       (i \in 1..Len(tasks) /\ Dispatched(i)) ~> (Hung(i) \/ Answered(i))

\* C20 witness: the first command hangs, and a command received while it was
\* in flight made its filesystem calls and was answered
C20_Witness ==
  /\ Len(tasks) = 2
  /\ tasks[1].hung
  /\ ~snap[2].solo
  /\ Returned(2)
  /\ fsops[2] # {}
  /\ AnsweredOnce(2)

\* the message received by this step is a command of an unknown action that
\* reaches the dispatcher
UnknownReceived ==
  /\ Len(receivedMessages') = Len(receivedMessages) + 1
  /\ listening
  /\ LET msg == receivedMessages'[Len(receivedMessages')] IN
     /\ msg.type = "text"
     /\ msg.body.syntax = "object"
     /\ Get(msg.body.obj, "action") \notin KnownActions

\* C21: the step that receives a command of an unknown action is the step
\* that hands its "Unknown command" Response to the chunker: within it that
\* Response is the one message passed to upload(), published and queued, no
\* other message is received, no task received earlier moves and the
\* filesystem is untouched.
C21_UnknownAnsweredOnReceipt ==
  [][UnknownReceived =>
       LET n == Len(receivedMessages') IN
       /\ Len(tasks') = n
       /\ tasks'[n].at = "done"
       /\ \A j \in 1..Len(tasks) : tasks'[j] = tasks[j]
       /\ \A j \in 1..Len(handed) : handed'[j] = handed[j]
       /\ Len(handed'[n]) = 1
       /\ handed'[n][1].body.obj.message = <<"Unknown command">>
       /\ sentMessages' = <<handed'[n][1]>> \o sentMessages
       /\ published' = Append(published, PublishObj(handed'[n][1]))
       /\ chunkerQueue' = Append(chunkerQueue, PublishObj(handed'[n][1]))
       /\ fs' = fs
       /\ fsops'[n] = {}]_vars

\* C21 witness: a command of action "bogus", received while an earlier
\* command was past its first filesystem call and still in flight, has its
\* Response last in the chunker's queue
C21_Witness ==
  /\ Len(tasks) = 2
  /\ Active(tasks[1])
  /\ fsops[1] # {}
  /\ Get(tasks[2].cmd, "action") = "bogus"
  /\ Returned(2)
  /\ chunkerQueue # <<>>
  /\ chunkerQueue[Len(chunkerQueue)] = PublishObj(handed[2][1])

\* task i performs its fs.rename in this step, onto a destination that exists
RenamesOnto(i) ==
  /\ tasks[i].at = "rename.rename"
  /\ tasks'[i].at # "rename.rename"
  /\ EntryPath(tasks[i].cmd, "newName") \in DOMAIN fs
  /\ EntryPath(tasks[i].cmd, "newName") # EntryPath(tasks[i].cmd, "oldName")

\* C22: a rename whose destination exists when fs.rename is performed, for
\* instance created by an upload or a mkdir after the rename's check, ends in
\* an error Response and leaves the destination as it was.
C22_RenameNeverReplaces ==
  [][\A i \in 1..Len(tasks) : RenamesOnto(i) =>
       LET newPath == EntryPath(tasks[i].cmd, "newName") IN
       /\ newPath \in DOMAIN fs'
       /\ fs'[newPath] = fs[newPath]
       /\ tasks'[i].at = "done"
       /\ handed'[i][Len(handed'[i])].body.obj.status = "error"]_vars

\* C23: every file message a download passed to upload() carries the size of
\* its own content, fileSize = the byte length of the decoded body, and the
\* download's success Response reports that same length.
C23_DownloadConsistent ==
  \A i \in 1..Len(tasks) :
    (Dispatched(i) /\ ActionOf(i) = "download") =>
      \A k \in 1..Len(handed[i]) : IsFile(handed[i][k]) =>
        /\ handed[i][k].fileSize = Len(Base64Decode(handed[i][k].body))
        /\ (Returned(i) /\ Resp(i).status = "success") =>
             Resp(i).size = Len(Base64Decode(handed[i][k].body))

\* C24: in every upload-progress Response of a tick, with total >= 1 and
\* progress in 0..100, complete is true exactly when received = total, and
\* received is at most total.
C24_CompleteIffAllReceived ==
  \A k \in 1..Len(lastTick.out) :
    LET r == lastTick.out[k].body.obj IN
    (r.total >= 1 /\ r.progress \in 0..100) =>
      /\ r.complete <=> (r.received = r.total)
      /\ r.received <= r.total

====
